---- MODULE Spec2Model ----
(***************************************************************************)
(* Model of the coffee-shop API in backend/src/api.py: five Flask          *)
(* handlers over one "drink" table, the body validator check_drink_body    *)
(* and the error handlers.  Each request is handled to completion, so one  *)
(* action is one request.  The ORM model (database/models.py) and the      *)
(* authorization decorator (auth/auth.py) are imported by api.py but are   *)
(* not part of the sources at hand; they are modelled from the             *)
(* specification (Record Store, Recipe Codec, Authorization Gate).         *)
(***************************************************************************)
EXTENDS Integers, Sequences, FiniteSets, TLC

VARIABLES
    store,    \* the drink table: id -> [title, recipe], both columns text
    before,   \* the table as the last request found it
    posted,   \* id -> body submitted by the POST that created the row,
              \* kept while the row is as that POST wrote it
    req,      \* the last request
    resp      \* the response to it

vars == <<store, before, posted, req, resp>>

\* Largest number of rows (and largest id) the table holds.
MaxDrinks == 2
\* Longest recipe list a request body carries.
MaxSteps == 2

-----------------------------------------------------------------------------
(* JSON values of a request body.  Every value has the same three fields   *)
(* so that values of different JSON types can be compared.                 *)

Null == [t |-> "null", s |-> "", i |-> 0]
JStr(x) == [t |-> "str", s |-> x, i |-> 0]
JInt(n) == [t |-> "int", s |-> "", i |-> n]
\* the one-element JSON list [n]
JList(n) == [t |-> "list", s |-> "", i |-> n]

\* dict.get(key, None): an absent key and a null value both read as None
NoRecipe == [t |-> "null", s |-> "", steps |-> <<>>]
StrRecipe(x) == [t |-> "str", s |-> x, steps |-> <<>>]
ListRecipe(l) == [t |-> "list", s |-> "", steps |-> l]

\* request.get_json() returning None
NoBody == [present |-> FALSE, title |-> Null, recipe |-> NoRecipe]
Body(ti, r) == [present |-> TRUE, title |-> ti, recipe |-> r]

Step(c, n, p) == [color |-> c, name |-> n, parts |-> p]

\* Python truth value of a JSON value ("not x" is its negation)
Truthy(v) ==
    CASE v.t = "null" -> FALSE
      [] v.t = "str"  -> v.s # ""
      [] v.t = "int"  -> v.i # 0
      [] v.t = "list" -> TRUE

RecipeTruthy(r) ==
    CASE r.t = "null" -> FALSE
      [] r.t = "str"  -> r.s # ""
      [] r.t = "list" -> r.steps # <<>>

\* a dict is true when it has a key
BodyTruthy(b) == b.present /\ (b.title.t # "null" \/ b.recipe.t # "null")

\* the decimal numerals the model uses
Numerals == {ToString(n) : n \in 0..9}

\* int(parts): "ok", or the exception it raises
IntOf(v) ==
    CASE v.t = "int"  -> "ok"
      [] v.t = "str"  -> IF v.s \in Numerals THEN "ok" ELSE "ValueError"
      [] v.t = "list" -> "TypeError"
      [] v.t = "null" -> "TypeError"

-----------------------------------------------------------------------------
(* json.dumps / json.loads.  Text is kept as its sequence of JSON lexemes; *)
(* the title column is one lexeme and is kept as a string.                 *)

DumpsValue(v) ==
    CASE v.t = "null" -> <<"null">>
      [] v.t = "str"  -> <<"\"" \o v.s \o "\"">>
      [] v.t = "int"  -> <<ToString(v.i)>>
      [] v.t = "list" -> <<"[", ToString(v.i), "]">>

DumpsStep(st) ==
    <<"{", "\"color\"", ":">> \o DumpsValue(st.color)
    \o <<",", "\"name\"", ":">> \o DumpsValue(st.name)
    \o <<",", "\"parts\"", ":">> \o DumpsValue(st.parts) \o <<"}">>

RECURSIVE DumpsSteps(_)
DumpsSteps(l) ==
    IF l = <<>> THEN <<>>
    ELSE IF Len(l) = 1 THEN DumpsStep(l[1])
    ELSE DumpsStep(l[1]) \o <<",">> \o DumpsSteps(Tail(l))

\* json.dumps(body.get("recipe"))
DumpsRecipe(r) ==
    CASE r.t = "null" -> <<"null">>
      [] r.t = "str"  -> <<"\"" \o r.s \o "\"">>
      [] r.t = "list" -> <<"[">> \o DumpsSteps(r.steps) \o <<"]">>

\* json.dumps(body.get("title"))
DumpsTitle(v) == DumpsValue(v)[1]

Words == {"", "red", "milk", "Latte", "abc", "x"} \cup Numerals

LoadsLexeme(tok) ==
    IF tok = "null" THEN Null
    ELSE IF tok \in Numerals
         THEN JInt(CHOOSE n \in 0..9 : ToString(n) = tok)
         ELSE JStr(CHOOSE w \in Words : ("\"" \o w \o "\"") = tok)

LoadsValue(toks, pos) ==
    IF toks[pos] = "["
    THEN [v |-> JList(LoadsLexeme(toks[pos + 1]).i), next |-> pos + 3]
    ELSE [v |-> LoadsLexeme(toks[pos]), next |-> pos + 1]

RECURSIVE LoadsSteps(_, _)
LoadsSteps(toks, pos) ==
    IF toks[pos] = "]" THEN <<>>
    ELSE LET p == IF toks[pos] = "," THEN pos + 1 ELSE pos
             c == LoadsValue(toks, p + 3)
             n == LoadsValue(toks, c.next + 3)
             q == LoadsValue(toks, n.next + 3)
         IN  <<Step(c.v, n.v, q.v)>> \o LoadsSteps(toks, q.next + 1)

\* json.loads(self.recipe) of a stored list
LoadsRecipe(toks) ==
    IF toks[1] = "[" THEN LoadsSteps(toks, 2) ELSE <<>>

-----------------------------------------------------------------------------
(* Drink views (models.py, from the specification's Recipe Codec)          *)

long(id, drink) ==
    [id |-> id, title |-> drink.title, recipe |-> LoadsRecipe(drink.recipe)]

ShortStep(st) == [color |-> st.color, name |-> st.name]

short(id, drink) ==
    [id |-> id, title |-> drink.title,
     recipe |-> [k \in DOMAIN LoadsRecipe(drink.recipe)
                   |-> ShortStep(LoadsRecipe(drink.recipe)[k])]]

Ids(st) == DOMAIN st

\* ids in increasing order
RECURSIVE SortedIds(_)
SortedIds(S) ==
    IF S = {} THEN <<>>
    ELSE LET m == CHOOSE a \in S : \A b \in S : a <= b
         IN  <<m>> \o SortedIds(S \ {m})

\* Drink.query.all()
QueryAll(st) == SortedIds(Ids(st))

\* the id the table gives a new row
NewId(st) == IF Ids(st) = {} THEN 1
             ELSE 1 + (CHOOSE a \in Ids(st) : \A b \in Ids(st) : b <= a)

\* drink.insert()
Insert(st, title, recipe) ==
    [k \in Ids(st) \cup {NewId(st)} |->
        IF k \in Ids(st) THEN st[k] ELSE [title |-> title, recipe |-> recipe]]

\* drink.update()
Update(st, id, drink) == [st EXCEPT ![id] = drink]

\* drink.delete()
Delete(st, id) == [k \in Ids(st) \ {id} |-> st[k]]

-----------------------------------------------------------------------------
(* Authorization Gate (auth.py, from the specification)                    *)

Permissions == {"get:drinks-detail", "post:drinks", "patch:drinks",
                "delete:drinks"}

NoToken == [header |-> FALSE, expired |-> FALSE, permissions |-> {}]
ExpiredToken == [header |-> TRUE, expired |-> TRUE, permissions |-> Permissions]
BaristaToken == [header |-> TRUE, expired |-> FALSE,
                 permissions |-> {"get:drinks-detail"}]
ManagerToken == [header |-> TRUE, expired |-> FALSE, permissions |-> Permissions]

Tokens == {NoToken, ExpiredToken, BaristaToken, ManagerToken}

NoAuthError == [status_code |-> 0, description |-> ""]

\* requires_auth(permission): the AuthError raised, NoAuthError if none
requires_auth(permission, token) ==
    IF ~token.header
    THEN [status_code |-> 401,
          description |-> "Authorization header is expected."]
    ELSE IF token.expired
    THEN [status_code |-> 401, description |-> "Token expired."]
    ELSE IF permission \notin token.permissions
    THEN [status_code |-> 403, description |-> "Permission not found."]
    ELSE NoAuthError

-----------------------------------------------------------------------------
(* Responses                                                               *)

Response(status, json, success, error, message, drinks, delete) ==
    [status |-> status, json |-> json, success |-> success, error |-> error,
     message |-> message, drinks |-> drinks, delete |-> delete]

NoResponse == Response(0, FALSE, FALSE, 0, "", <<>>, 0)

\* jsonify({"success": True, "drinks": drinks}); the status defaults to 200
OkDrinks(drinks) == Response(200, TRUE, TRUE, 0, "", drinks, 0)

\* jsonify({"success": True, "delete": id})
OkDelete(id) == Response(200, TRUE, TRUE, 0, "", <<>>, id)

\* @app.errorhandler(422)
unprocessable ==
    Response(422, TRUE, FALSE, 422, "unprocessable", <<>>, 0)

\* @app.errorhandler(404)
not_found ==
    Response(404, TRUE, FALSE, 404, "resource not found", <<>>, 0)

\* @app.errorhandler(AuthError)
auth_error(error) ==
    Response(error.status_code, TRUE, FALSE, error.status_code,
             error.description, <<>>, 0)

\* @app.errorhandler(500): the handler returns the JSON body without a
\* status, so the response carries the default status 200
server_error ==
    Response(200, TRUE, FALSE, 500, "Something went wrong.", <<>>, 0)

\* a code with no registered handler gets the framework's HTML error page
DefaultErrorPage(code) == Response(code, FALSE, FALSE, 0, "", <<>>, 0)

\* abort(code)
abort(code) ==
    CASE code = 422 -> unprocessable
      [] code = 404 -> not_found
      [] code = 500 -> server_error
      [] OTHER      -> DefaultErrorPage(code)

\* An exception no handler catches: under app.run(debug=True) it propagates
\* to the debugger, which answers 500 with an HTML page; otherwise the 500
\* handler answers.
Unhandled(debug) == IF debug THEN DefaultErrorPage(500) ELSE server_error

Result(st, r) == [store |-> st, resp |-> r]

-----------------------------------------------------------------------------
(* check_drink_body                                                        *)

\* one pass of the loop body: "ok", "false", or the exception int() raises
\* that the except clause does not catch
CheckStep(r) ==
    IF ~Truthy(r.color) \/ ~Truthy(r.name) \/ ~Truthy(r.parts) THEN "false"
    ELSE CASE IntOf(r.parts) = "ok"         -> "ok"
           [] IntOf(r.parts) = "ValueError" -> "false"
           [] IntOf(r.parts) = "TypeError"  -> "TypeError"

RECURSIVE CheckSteps(_)
CheckSteps(l) ==
    IF l = <<>> THEN "true"
    ELSE IF CheckStep(Head(l)) = "ok" THEN CheckSteps(Tail(l))
    ELSE CheckStep(Head(l))

check_drink_body(body) ==
    IF ~BodyTruthy(body) THEN "false"
    ELSE IF body.recipe.t # "list" THEN "false"
    ELSE CheckSteps(body.recipe.steps)

-----------------------------------------------------------------------------
(* The handlers.  Each takes the table and the request and gives the table *)
(* after the request and the response.  fault says which store call of the *)
(* request raises ("query", "write") or "none"; debug says whether         *)
(* uncaught exceptions propagate.                                          *)

\* GET /drinks.  query.all() gives a list, never None, so the 404 branch
\* is not taken.
get_drinks(st, fault) ==
    IF fault = "query" THEN Result(st, abort(500))
    ELSE Result(st, OkDrinks([k \in DOMAIN QueryAll(st) |->
                                short(QueryAll(st)[k], st[QueryAll(st)[k]])]))

\* GET /drinks-detail
get_drinks_details(st, token, fault) ==
    LET err == requires_auth("get:drinks-detail", token)
    IN  IF err # NoAuthError THEN Result(st, auth_error(err))
        ELSE IF fault = "query" THEN Result(st, abort(500))
        ELSE Result(st, OkDrinks([k \in DOMAIN QueryAll(st) |->
                                long(QueryAll(st)[k], st[QueryAll(st)[k]])]))

\* post_drink with the body validated before the permission is checked
post_drink_validates_first(st, token, body, fault, debug) ==
    LET err == requires_auth("post:drinks", token)
        chk == check_drink_body(body)
        new == Insert(st, DumpsTitle(body.title), DumpsRecipe(body.recipe))
    IN  IF chk = "TypeError" THEN Result(st, Unhandled(debug))
        ELSE IF chk = "false" THEN Result(st, abort(400))
        ELSE IF err # NoAuthError THEN Result(st, auth_error(err))
        ELSE IF fault = "write" THEN Result(st, abort(422))
        ELSE Result(new, OkDrinks(<<long(NewId(st), new[NewId(st)])>>))

\* POST /drinks.  The response's "drinks" is the one long view, held here
\* as a one-element sequence.
post_drink(st, token, body, fault, debug) ==
    LET err == requires_auth("post:drinks", token)
        chk == check_drink_body(body)
        new == Insert(st, DumpsTitle(body.title), DumpsRecipe(body.recipe))
    IN  IF err # NoAuthError THEN Result(st, auth_error(err))
        ELSE IF chk = "TypeError" THEN Result(st, Unhandled(debug))
        ELSE IF chk = "false" THEN Result(st, abort(400))
        ELSE IF fault = "write" THEN Result(st, abort(422))
        ELSE Result(new, OkDrinks(<<long(NewId(st), new[NewId(st)])>>))

\* PatchTitle storing the title as post_drink does, through json.dumps
PatchTitleDumps(drink, title) ==
    IF Truthy(title) THEN [drink EXCEPT !.title = DumpsTitle(title)] ELSE drink

\* "if title: drink.title = title"
PatchTitle(drink, title) ==
    IF Truthy(title) THEN [drink EXCEPT !.title = title.s] ELSE drink

\* "for i in enumerate(recipe): color = recipe[i].get(...)": i is the pair
\* (index, item), and indexing the list with it raises TypeError in the
\* first pass, before any field is assigned.
PatchRecipe(drink, steps) ==
    IF steps = <<>> THEN [raised |-> FALSE, drink |-> drink]
    ELSE [raised |-> TRUE, drink |-> drink]

\* PATCH /drinks/<id>.  The row is written by drink.update() only; a
\* request that aborts or raises before it leaves the table as it was.
patch_drink(st, token, id, body, fault, debug) ==
    LET err == requires_auth("patch:drinks", token)
        titled == PatchTitle(st[id], body.title)
    IN  IF err # NoAuthError THEN Result(st, auth_error(err))
        ELSE IF fault = "query" THEN Result(st, abort(500))
        ELSE IF id \notin Ids(st) THEN Result(st, abort(404))
        ELSE IF ~BodyTruthy(body) THEN Result(st, abort(400))
        ELSE IF RecipeTruthy(body.recipe) /\ body.recipe.t # "list"
             THEN Result(st, abort(400))
        ELSE IF RecipeTruthy(body.recipe)
                /\ PatchRecipe(titled, body.recipe.steps).raised
             THEN Result(st, Unhandled(debug))
        ELSE IF fault = "write" THEN Result(st, abort(500))
        ELSE Result(Update(st, id, titled), OkDrinks(<<long(id, titled)>>))

\* delete_drinks without the "if not drink: abort(404)" test
delete_drinks_no_404(st, token, id, fault) ==
    LET err == requires_auth("delete:drinks", token)
    IN  IF err # NoAuthError THEN Result(st, auth_error(err))
        ELSE IF fault = "query" THEN Result(st, abort(500))
        ELSE IF fault = "write" THEN Result(st, abort(500))
        ELSE Result(Delete(st, id), OkDelete(id))

\* DELETE /drinks/<id>
delete_drinks(st, token, id, fault) ==
    LET err == requires_auth("delete:drinks", token)
    IN  IF err # NoAuthError THEN Result(st, auth_error(err))
        ELSE IF fault = "query" THEN Result(st, abort(500))
        ELSE IF id \notin Ids(st) THEN Result(st, abort(404))
        ELSE IF fault = "write" THEN Result(st, abort(500))
        ELSE Result(Delete(st, id), OkDelete(id))

-----------------------------------------------------------------------------
(* Requests                                                                *)

PostTitles == {Null, JStr("Latte")}
PatchTitles == {Null, JStr(""), JStr("Latte")}

GoodStep == Step(JStr("red"), JStr("milk"), JInt(3))

PostSteps ==
    {GoodStep,
     Step(JStr("red"), JStr("milk"), JInt(0)),
     Step(JStr("red"), JStr("milk"), JStr("abc")),
     Step(JStr("red"), JStr("milk"), JList(1)),
     Step(Null, JStr("milk"), JInt(3))}

\* a step that gives parts only
PartsOnly == Step(Null, Null, JInt(2))

PatchSteps == {PartsOnly}

SeqsUpTo(S, n) == UNION {[1..k -> S] : k \in 0..n}

Bodies(titles, steps) ==
    {NoBody} \cup
    {Body(ti, r) : ti \in titles,
                   r \in {NoRecipe, StrRecipe("x")} \cup
                         {ListRecipe(l) : l \in SeqsUpTo(steps, MaxSteps)}}

PostBodies == Bodies(PostTitles, PostSteps)
PatchBodies == Bodies(PatchTitles, PatchSteps)

\* ids a request names: those the table can hold and one it never holds
RequestIds == 1..(MaxDrinks + 1)

Request(op, token, id, body, fault) ==
    [op |-> op, token |-> token, id |-> id, body |-> body, fault |-> fault]

NoRequest == Request("none", NoToken, 0, NoBody, "none")

EmptyStore == [k \in {} |-> [title |-> "", recipe |-> <<>>]]
NothingPosted == [k \in {} |-> NoBody]

Init ==
    /\ store = EmptyStore
    /\ before = EmptyStore
    /\ posted = NothingPosted
    /\ req = NoRequest
    /\ resp = NoResponse

Handled(r, request) ==
    /\ store' = r.store
    /\ before' = store
    /\ resp' = r.resp
    /\ req' = request

\* the server takes a request when it is not handling one
Idle == req = NoRequest

\* a store call can only fail in a request that gets past authorization
Reaches(permission, token, fault) ==
    requires_auth(permission, token) = NoAuthError \/ fault = "none"

\* posted, after a request on row id that gave the table st
Forget(id, st) ==
    IF id \in Ids(store) /\ (id \notin Ids(st) \/ st[id] # store[id])
    THEN [k \in DOMAIN posted \ {id} |-> posted[k]]
    ELSE posted

GetDrinks ==
    /\ Idle
    /\ \E fault \in {"none", "query"} :
        /\ Handled(get_drinks(store, fault),
                   Request("get_drinks", NoToken, 0, NoBody, fault))
        /\ UNCHANGED posted

GetDrinksDetails ==
    /\ Idle
    /\ \E token \in Tokens, fault \in {"none", "query"} :
        /\ Reaches("get:drinks-detail", token, fault)
        /\ Handled(get_drinks_details(store, token, fault),
                   Request("get_drinks_details", token, 0, NoBody, fault))
        /\ UNCHANGED posted

PostDrink ==
    /\ Idle
    /\ NewId(store) <= MaxDrinks
    /\ \E token \in Tokens, body \in PostBodies, fault \in {"none", "write"},
          debug \in BOOLEAN :
        /\ Reaches("post:drinks", token, fault)
        /\ \E r \in {post_drink(store, token, body, fault, debug)} :
            /\ Handled(r, Request("post_drink", token, 0, body, fault))
            /\ posted' = IF r.resp.success
                         THEN [k \in DOMAIN posted \cup {NewId(store)} |->
                                 IF k = NewId(store) THEN body ELSE posted[k]]
                         ELSE posted

PatchDrink ==
    /\ Idle
    /\ \E token \in Tokens, id \in RequestIds, body \in PatchBodies,
          fault \in {"none", "query", "write"}, debug \in BOOLEAN :
        /\ Reaches("patch:drinks", token, fault)
        /\ \E r \in {patch_drink(store, token, id, body, fault, debug)} :
            /\ Handled(r, Request("patch_drink", token, id, body, fault))
            /\ posted' = Forget(id, r.store)

DeleteDrinks ==
    /\ Idle
    /\ \E token \in Tokens, id \in RequestIds,
          fault \in {"none", "query", "write"} :
        /\ Reaches("delete:drinks", token, fault)
        /\ \E r \in {delete_drinks(store, token, id, fault)} :
            /\ Handled(r, Request("delete_drinks", token, id, NoBody, fault))
            /\ posted' = Forget(id, r.store)

\* the request is over: its context is dropped and the server waits for
\* the next one
Teardown ==
    /\ req # NoRequest
    /\ req' = NoRequest
    /\ resp' = NoResponse
    /\ before' = store
    /\ UNCHANGED <<store, posted>>

Next ==
    \/ GetDrinks
    \/ GetDrinksDetails
    \/ PostDrink
    \/ PatchDrink
    \/ DeleteDrinks
    \/ Teardown

Spec == Init /\ [][Next]_vars

TypeOK ==
    /\ Ids(store) \subseteq 1..MaxDrinks
    /\ Ids(before) \subseteq 1..MaxDrinks
    /\ DOMAIN posted \subseteq Ids(store)
    /\ resp.status \in {0, 200, 400, 401, 403, 404, 422, 500}

-----------------------------------------------------------------------------
(* Properties                                                              *)

\* the last request was to op and its token passed the check for permission
Allowed(op, permission) ==
    req.op = op /\ requires_auth(permission, req.token) = NoAuthError

\* the request left every row other than id as it was
OthersUnchanged(id) ==
    \A k \in Ids(before) \ {id} : k \in Ids(store) /\ store[k] = before[k]

\* parts that can be read as an integer: a number or a numeric string
Parseable(v) == v.t = "int" \/ (v.t = "str" /\ v.s \in Numerals)

\* a step with a colour, a name and integer parts
WellFormed(st) ==
    /\ st.color.t = "str" /\ st.color.s # ""
    /\ st.name.t = "str" /\ st.name.s # ""
    /\ Parseable(st.parts)

WellFormedRecipe(r) ==
    /\ r.t = "list"
    /\ r.steps # <<>>
    /\ \A k \in DOMAIN r.steps : WellFormed(r.steps[k])

\* C1: every drink GET /drinks-detail returns that a POST created from a
\* body with a title and a non-empty recipe of well-formed steps has the
\* submitted title and the submitted recipe, step for step.
C1_PostThenDetail ==
    Allowed("get_drinks_details", "get:drinks-detail") /\ resp.success =>
        \A k \in DOMAIN resp.drinks :
            LET d == resp.drinks[k]
            IN  (/\ d.id \in DOMAIN posted
                 /\ Truthy(posted[d.id].title)
                 /\ WellFormedRecipe(posted[d.id].recipe))
                => /\ d.title = posted[d.id].title.s
                   /\ d.recipe = posted[d.id].recipe.steps

\* the step old with the fields that given gives
MergeStep(old, given) ==
    [color |-> IF given.color.t # "null" THEN given.color ELSE old.color,
     name  |-> IF given.name.t # "null" THEN given.name ELSE old.name,
     parts |-> IF given.parts.t # "null" THEN given.parts ELSE old.parts]

\* the recipe old merged by position with the steps given
MergeRecipe(old, given) ==
    [k \in DOMAIN old |->
        IF k <= Len(given) THEN MergeStep(old[k], given[k]) ELSE old[k]]

\* C2: PATCH of an existing id with a non-empty recipe list answers 200 and
\* merges the given step fields by position into the stored recipe, leaving
\* everything else as it was.
C2_PatchMerges ==
    (/\ Allowed("patch_drink", "patch:drinks")
     /\ req.fault = "none"
     /\ req.id \in Ids(before)
     /\ LoadsRecipe(before[req.id].recipe) # <<>>
     /\ req.body.recipe.t = "list"
     /\ req.body.recipe.steps # <<>>)
    => /\ resp.status = 200
       /\ resp.success
       /\ Ids(store) = Ids(before)
       /\ LoadsRecipe(store[req.id].recipe)
            = MergeRecipe(LoadsRecipe(before[req.id].recipe),
                          req.body.recipe.steps)
       /\ OthersUnchanged(req.id)

\* C3: every stored drink has a non-empty recipe, and a POST whose recipe
\* is empty, absent or not a list is answered 400 and creates no row.
C3_RecipeNeverEmpty ==
    /\ \A id \in Ids(store) : LoadsRecipe(store[id].recipe) # <<>>
    /\ (/\ Allowed("post_drink", "post:drinks")
        /\ req.fault = "none"
        /\ (req.body.recipe.t # "list" \/ req.body.recipe.steps = <<>>))
       => resp.status = 400 /\ store = before

\* C4: a POST with a valid recipe and without a title (absent or empty) is
\* answered 400 and creates no row; it creates a row only with a title.
C4_TitleRequired ==
    (/\ Allowed("post_drink", "post:drinks")
     /\ req.fault = "none"
     /\ WellFormedRecipe(req.body.recipe))
    => /\ ~Truthy(req.body.title) => resp.status = 400 /\ store = before
       /\ store # before => Truthy(req.body.title)

\* the last request failed
Failed == req.op # "none" /\ ~(resp.json /\ resp.success)

\* C5: every failed request is answered with one of the statuses 400, 401,
\* 403, 404, 422, 500 and the JSON body {success: false, error, message}
\* whose error is that status.
C5_UniformErrors ==
    Failed => /\ resp.status \in {400, 401, 403, 404, 422, 500}
              /\ resp.json
              /\ ~resp.success
              /\ resp.error = resp.status
              /\ resp.message # ""

\* C6: in a POST whose steps all have a colour and a name, the request is
\* accepted when every parts can be read as an integer (0 included), and is
\* answered 400 with the table unchanged when some parts cannot.
C6_PartsParseable ==
    (/\ Allowed("post_drink", "post:drinks")
     /\ req.fault = "none"
     /\ req.body.recipe.t = "list"
     /\ \A k \in DOMAIN req.body.recipe.steps :
            /\ Truthy(req.body.recipe.steps[k].color)
            /\ Truthy(req.body.recipe.steps[k].name))
    => IF \A k \in DOMAIN req.body.recipe.steps :
              Parseable(req.body.recipe.steps[k].parts)
       THEN resp.status = 200 /\ resp.success
       ELSE resp.status = 400 /\ store = before

\* the last request was a PATCH of an existing id whose body holds a
\* non-empty title and nothing else, and the store raised nothing
TitleOnlyPatch ==
    /\ Allowed("patch_drink", "patch:drinks")
    /\ req.fault = "none"
    /\ req.id \in Ids(before)
    /\ req.body.present
    /\ Truthy(req.body.title)
    /\ req.body.recipe.t = "null"

\* C7: a PATCH of an existing id with only a non-empty title X answers 200,
\* sets the stored title to X and leaves the drink's recipe, its id and
\* every other drink as they were.
C7_PatchTitleOnly ==
    TitleOnlyPatch =>
        /\ resp.status = 200
        /\ resp.success
        /\ Ids(store) = Ids(before)
        /\ store[req.id].title = req.body.title.s
        /\ store[req.id].recipe = before[req.id].recipe
        /\ OthersUnchanged(req.id)

\* a title-only PATCH that changed the title of a drink with a recipe,
\* beside another drink
C7_Witness ==
    /\ TitleOnlyPatch
    /\ Cardinality(Ids(before)) = 2
    /\ before[req.id].title # req.body.title.s
    /\ LoadsRecipe(before[req.id].recipe) # <<>>
    /\ resp.status = 200

\* C8: a DELETE of an id that is not in the table is answered 404 (when the
\* lookup itself raises nothing; never with the 200 success body in any
\* case) and leaves the table unchanged; the 200 {success, delete: id}
\* answer is given only when the drink existed and is now removed.
C8_DeleteMissing ==
    Allowed("delete_drinks", "delete:drinks") =>
        /\ (req.id \notin Ids(before) /\ req.fault # "query")
           => resp.status = 404 /\ resp.error = 404
        /\ req.id \notin Ids(before)
           => ~(resp.status = 200 /\ resp.success) /\ store = before
        /\ (resp.status = 200 /\ resp.success /\ resp.delete = req.id)
           => /\ req.id \in Ids(before)
              /\ Ids(store) = Ids(before) \ {req.id}
              /\ OthersUnchanged(req.id)

\* a DELETE of an id that is not among the rows of a table that has rows
C8_Witness ==
    /\ Allowed("delete_drinks", "delete:drinks")
    /\ Ids(before) # {}
    /\ req.id \notin Ids(before)
    /\ resp.status = 404

Protected ==
    [get_drinks_details |-> "get:drinks-detail", post_drink |-> "post:drinks",
     patch_drink |-> "patch:drinks", delete_drinks |-> "delete:drinks"]

\* C9: on every protected endpoint a request whose token is missing,
\* invalid or lacks the permission gets the AuthError answer, 401 or 403 and
\* never 400 or 404, whatever its body or id, and the table is unchanged.
C9_AuthFirst ==
    \A op \in DOMAIN Protected :
        (req.op = op /\ requires_auth(Protected[op], req.token) # NoAuthError)
        => /\ resp = auth_error(requires_auth(Protected[op], req.token))
           /\ resp.status \in {401, 403}
           /\ store = before

\* a POST without the permission whose body would not pass validation
C9_Witness ==
    /\ req.op = "post_drink"
    /\ req.token = BaristaToken
    /\ check_drink_body(req.body) # "true"
    /\ resp.status = 403

\* C10: a POST whose recipe has a step without a colour is answered 400 and
\* the table after it equals the table before it.
C10_MissingColor ==
    (/\ Allowed("post_drink", "post:drinks")
     /\ req.body.recipe.t = "list"
     /\ \E k \in DOMAIN req.body.recipe.steps :
            req.body.recipe.steps[k].color.t = "null")
    => resp.status = 400 /\ store = before

====
